---- MODULE Spec2Model ----
(***************************************************************************)
(* A model of sector_rotation.py: the rate-limited MetaSyncAPI client      *)
(* (_rate_limit, _make_request, connect, get_ohlc, get_tick,               *)
(* get_symbol_info, get_positions) and the SectorRotationStrategy that     *)
(* polls it (initialize, _load_symbol_info, run_strategy).                 *)
(*                                                                         *)
(* The program is single-threaded.  Its only interaction with the outside  *)
(* is the HTTP exchange inside _make_request, so one action of the model   *)
(* is the code that runs between two such exchanges: starting an           *)
(* operation runs up to the first requests.get/post, and each gateway      *)
(* answer runs the rest of _make_request and of its callers up to the next *)
(* requests.get/post or to the return of the operation.                    *)
(*                                                                         *)
(* Time is counted in clock ticks of half a second.  The code reads the    *)
(* clock only as time.time() - self.last_request_time, so the model keeps  *)
(* that difference (elapsed) instead of the two absolute values, and lets  *)
(* it saturate at Horizon, above every value it is compared with.          *)
(***************************************************************************)
EXTENDS Integers, Sequences, FiniteSets, TLC

(* ---------------------------------------------------------------- bounds *)

\* The gateway answers 429 at most this many times in a row to one call.
MaxRetries == 2
\* A gateway answer takes 0..MaxLatency ticks.
MaxLatency == 1
\* The caller of the client waits 0..MaxIdle ticks between two operations.
MaxIdle == 2
\* The bar lists that get_ohlc's normalisation is applied to have up to MaxBars bars.
MaxBars == 3
\* An OHLC answer of the gateway holds at most this many bars.
MaxAnswerBars == 2
\* get_ohlc is called with count in 0..MaxCount.
MaxCount == 3
\* _load_symbol_info visits the first MaxSectors entries of its sector table.
MaxSectors == 2
\* the rows of a frame given to calculate_relative_strength are at most
MaxRows == 2

(* ------------------------------------------------------- program constants *)

\* clock ticks per second: the code's shortest wait is time.sleep(0.5)
TicksPerSecond == 2
\* self.min_request_interval = 1.0 (seconds), in ticks
min_request_interval == 1 * TicksPerSecond
\* response.headers.get('Retry-After', 5): seconds
RetryAfterDefault == 5

\* run_strategy(update_interval=300): seconds
update_interval == 300

\* where a clock difference saturates
Horizon == min_request_interval

RAPIDAPI_KEY == "<RAPIDAPI_KEY>"
MT5_LOGIN == "<MT5_LOGIN>"
MT5_PASSWORD == "<MT5_PASSWORD>"
MT5_SERVER == "<MT5_SERVER>"

ENDPOINTS ==
    [connect |-> "/connect", account_info |-> "/account_info",
     symbol_info |-> "/symbol_info", tick |-> "/tick", ohlc |-> "/ohlc",
     positions |-> "/positions"]

\* Config.HEADERS (the second assignment of the class body is the one in force)
HEADERS == ("X-RapidAPI-Key" :> RAPIDAPI_KEY) @@ ("Content-Type" :> "application/json")

BENCHMARK == "US500"

\* sector_symbols of _load_symbol_info, in the order of the dict
AllSectors ==
    <<[sector |-> "Financials", symbol |-> "XLF.NYSE"],
      [sector |-> "Energy", symbol |-> "XLE.NYSE"],
      [sector |-> "Industrials", symbol |-> "XLI.NYSE"],
      [sector |-> "Consumer Staples", symbol |-> "XLP.NYSE"],
      [sector |-> "Utilities", symbol |-> "XLU.NYSE"],
      [sector |-> "Healthcare", symbol |-> "XLV.NYSE"],
      [sector |-> "Technology", symbol |-> "USTEC"]>>

sector_symbols ==
    SubSeq(AllSectors, 1, IF MaxSectors < Len(AllSectors) THEN MaxSectors ELSE Len(AllSectors))

(* ----------------------------------------------------------------- numbers *)

\* A Python float is modelled by the exact fraction num / den, den > 0, in
\* lowest terms; rounding is not modelled.
Abs(n) == IF n < 0 THEN 0 - n ELSE n

RECURSIVE GCD(_, _)
GCD(a, b) == IF b = 0 THEN a ELSE GCD(b, a % b)

Rat(n, d) ==
    LET g == GCD(Abs(n), Abs(d))
        sign == IF d < 0 THEN -1 ELSE 1
    IN [num |-> sign * (n \div g), den |-> sign * (d \div g)]

Zero == [num |-> 0, den |-> 1]
RatOfInt(n) == [num |-> n, den |-> 1]
RatSub(x, y) == Rat(x.num * y.den - y.num * x.den, x.den * y.den)
RatMul(x, y) == Rat(x.num * y.num, x.den * y.den)
\* x / y for y # 0
RatDiv(x, y) == Rat(x.num * y.den, x.den * y.num)

(* ------------------------------------------------- keyword-argument values *)

\* A keyword argument of _make_request is a string or a dict of strings.
Str(x) == [kind |-> "str", s |-> x, d |-> <<>>]
Dict(f) == [kind |-> "dict", s |-> "", d |-> f]
\* requests.get sends no body
NoBody == [kind |-> "none", s |-> "", d |-> <<>>]

\* dict.pop(key, ...) as far as the dict is concerned
Pop(f, key) == [k \in DOMAIN f \ {key} |-> f[k]]

\* what print() shows of a keyword-argument value: a dict is printed with its
\* keys and its values
Strings(v) == IF v.kind = "str" THEN {v.s} ELSE DOMAIN v.d \cup {v.d[k] : k \in DOMAIN v.d}

\* what print(f"   Params: {log_params}") shows
Printed(params) == DOMAIN params \cup UNION {Strings(params[k]) : k \in DOMAIN params}

\* connection_data of connect()
connection_data ==
    [login |-> MT5_LOGIN, password |-> MT5_PASSWORD, server |-> MT5_SERVER,
     path |-> "", timeout |-> "10000"]

(* ------------------------------------------------------------ JSON values *)

\* A parsed response body, or a value a client operation returns.  Every
\* value has the same fields; keys names the keys a dict holds, and a field
\* whose key is absent holds its default.  items is the content of a list,
\* or of the 'candles' / 'positions' entry of a dict.
JNull ==
    [shape |-> "null", keys |-> {}, flag |-> FALSE, status |-> "",
     bid |-> 0, ask |-> 0, volume |-> 0, items |-> <<>>]
JNumber == [JNull EXCEPT !.shape = "number"]
JBool(b) == [JNull EXCEPT !.shape = "bool", !.flag = b]
JList(items) == [JNull EXCEPT !.shape = "list", !.items = items]
JDict(keys) == [JNull EXCEPT !.shape = "dict", !.keys = keys]

\* bool(v)
Truthy(v) ==
    CASE v.shape = "dict" -> v.keys # {}
      [] v.shape = "list" -> v.items # <<>>
      [] v.shape = "bool" -> v.flag
      [] v.shape = "number" -> TRUE
      [] OTHER -> FALSE

\* {"error": True, "message": str(e)}
ErrorRecord == JDict({"error", "message"})

(* ------------------------------------------------------------------ bars *)

\* An OHLC bar: x.get('time', 0) and x['close'].
Times == 1..3
Closes == {-50, 0, 100}
Bars == [time : Times, close : Closes]

RECURSIVE SeqsUpTo(_, _)
SeqsUpTo(S, n) ==
    IF n = 0 THEN {<<>>}
    ELSE LET shorter == SeqsUpTo(S, n - 1)
         IN shorter \cup {Append(q, x) : q \in {r \in shorter : Len(r) = n - 1}, x \in S}

\* the bar lists that the normalisation of get_ohlc is checked on
BarLists == SeqsUpTo(Bars, MaxBars)
\* the bar lists of the gateway's answers: bars of two days
AnswerBars == {bar \in Bars : bar.time <= 2}
AnswerLists == SeqsUpTo(AnswerBars, MaxAnswerBars)

\* sorted(candles, key=lambda x: x.get('time', 0)): a stable sort, by insertion
RECURSIVE Insert(_, _)
Insert(sortedBars, bar) ==
    IF sortedBars = <<>> THEN <<bar>>
    ELSE LET last == sortedBars[Len(sortedBars)]
         IN IF last.time <= bar.time
            THEN Append(sortedBars, bar)
            ELSE Append(Insert(SubSeq(sortedBars, 1, Len(sortedBars) - 1), bar), last)

RECURSIVE sorted(_)
sorted(bars) ==
    IF bars = <<>> THEN <<>>
    ELSE Insert(sorted(SubSeq(bars, 1, Len(bars) - 1)), bars[Len(bars)])

\* seq[start:] of Python for any integer start: a negative start counts from
\* the end, and -0 is 0
SliceFrom(seq, start) ==
    LET n == Len(seq)
        from == IF start < 0
                THEN (IF start + n < 0 THEN 0 ELSE start + n)
                ELSE (IF start > n THEN n ELSE start)
    IN SubSeq(seq, from + 1, n)

\* sorted(...)[-count:]
LastCandles(bars, count) == SliceFrom(sorted(bars), 0 - count)

(* -------------------------------------------------------- gateway answers *)

Bids == {100}
Asks == {100, 102}
Volumes == {7}

\* the Retry-After header of a 429: absent, a number of seconds, or an HTTP date
RetryAfterHeaders == {"absent", "1", "Wed, 21 Oct 2015 07:28:00 GMT"}

\* int(text): the seconds, or -1 where int() raises ValueError
IntOf(text) ==
    CASE text = "0" -> 0
      [] text = "1" -> 1
      [] OTHER -> -1

IsInt(text) == text \in {"0", "1"}

ConnectBodies ==
    {[JDict(ks) EXCEPT !.flag = c, !.status = st] :
        ks \in {{"connected", "status"}}, c \in BOOLEAN, st \in {"success", "error"}}
    \cup {[JDict({"connected"}) EXCEPT !.flag = c] : c \in BOOLEAN}
    \cup {[JDict({"status"}) EXCEPT !.status = st] : st \in {"success", "error"}}
    \cup {JDict({"message"}), JDict({}), JList(<<>>), JNull, JNumber}

TickBodies ==
    {[JDict({"bid", "ask"}) EXCEPT !.bid = b, !.ask = a] : b \in Bids, a \in Asks}
    \cup {[JDict({"bid", "ask", "volume"}) EXCEPT !.bid = b, !.ask = 102, !.volume = v] :
            b \in Bids, v \in Volumes}
    \cup {[JDict({"bid"}) EXCEPT !.bid = b] : b \in Bids}
    \cup {[JDict({"ask"}) EXCEPT !.ask = a] : a \in Asks}
    \cup {JDict({"message"}), JDict({}), JList(<<>>), JNull}

SymbolInfoBodies == {JDict({"name"}), JDict({}), JNull}

OhlcBodies ==
    {JList(bars) : bars \in AnswerLists}
    \cup {[JDict({"candles"}) EXCEPT !.items = bars] : bars \in AnswerLists}
    \cup {JDict({"message"}), JDict({"status"}), JNull, JNumber}

PositionsBodies ==
    {[JDict({"positions"}) EXCEPT !.items = bars] : bars \in SeqsUpTo(Bars, 1)}
    \cup {JDict({"message"}), JDict({}), JList(<<>>), JNull}

\* the bodies the gateway may send with a 2xx status, by endpoint
Bodies(endpoint) ==
    CASE endpoint = ENDPOINTS.connect -> ConnectBodies
      [] endpoint = ENDPOINTS.tick -> TickBodies
      [] endpoint = ENDPOINTS.symbol_info -> SymbolInfoBodies
      [] endpoint = ENDPOINTS.ohlc -> OhlcBodies
      [] endpoint = ENDPOINTS.positions -> PositionsBodies
      [] OTHER -> {JDict({}), JNull}

(* ----------------------------------------------------------------- state *)

VARIABLES
    connected,    \* MetaSyncAPI.connected
    elapsed,      \* time.time() - MetaSyncAPI.last_request_time, up to Horizon
    call,         \* the client operation in progress, or the last one
    mr,           \* the activation of _make_request that awaits a gateway answer
    ret,          \* what the last client operation returned
    raised,       \* whether the last client operation raised
    trace,        \* what the operation has printed: the strings of its log lines
    sends,        \* the HTTP requests that the call of _make_request in progress has sent
    resp,         \* the last gateway answer
    since_send,   \* the time since the client last sent an HTTP request, up to Horizon
    slept,        \* the time slept since the last gateway answer
    pc,           \* where the program is: "client" when the client is driven directly
    strategy_connected,  \* SectorRotationStrategy.connected
    loader,       \* the activation of _load_symbol_info: its locals
    fetch,        \* what has become of the fetches of the sector the loader is at
    fetched,      \* what became of the fetches of the sector the loader was at before
    frame,        \* sector_data of run_strategy: the DataFrame the loader returned
    dashboard,    \* what display_dashboard printed in this cycle
    relative      \* the last call of calculate_relative_strength: what it was
                  \* given, what it left of it and what it returned

clientVars ==
    <<connected, elapsed, call, mr, ret, raised, trace, sends, resp, since_send, slept>>
strategyVars == <<pc, strategy_connected, loader, fetch, fetched, frame, dashboard, relative>>
vars == <<clientVars, strategyVars>>

\* the state as one value, for the operators below, which map a state to the
\* state that the code they model leaves
State ==
    [connected |-> connected, elapsed |-> elapsed, call |-> call, mr |-> mr,
     ret |-> ret, raised |-> raised, trace |-> trace, sends |-> sends,
     resp |-> resp, since_send |-> since_send, slept |-> slept,
     pc |-> pc, strategy_connected |-> strategy_connected, loader |-> loader,
     fetch |-> fetch, fetched |-> fetched, frame |-> frame, dashboard |-> dashboard,
     relative |-> relative]

Commit(s) ==
    /\ connected' = s.connected
    /\ elapsed' = s.elapsed
    /\ call' = s.call
    /\ mr' = s.mr
    /\ ret' = s.ret
    /\ raised' = s.raised
    /\ trace' = s.trace
    /\ sends' = s.sends
    /\ resp' = s.resp
    /\ since_send' = s.since_send
    /\ slept' = s.slept
    /\ pc' = s.pc
    /\ strategy_connected' = s.strategy_connected
    /\ loader' = s.loader
    /\ fetch' = s.fetch
    /\ fetched' = s.fetched
    /\ frame' = s.frame
    /\ dashboard' = s.dashboard
    /\ relative' = s.relative

NoCall ==
    [name |-> "none", symbol |-> "", count |-> 0, stage |-> "done",
     sent_connect |-> FALSE, sent_data |-> FALSE, was_connected |-> FALSE]
IdleRequest == [state |-> "idle", endpoint |-> "", method |-> "", kwargs |-> <<>>, depth |-> 0]
NoAnswer == [kind |-> "none", retry_after |-> "absent", body |-> JNull]

\* MetaSyncAPI.__init__; the clock is far from last_request_time = 0
ClientInit ==
    /\ connected = FALSE
    /\ elapsed = Horizon
    /\ call = NoCall
    /\ mr = IdleRequest
    /\ ret = JNull
    /\ raised = FALSE
    /\ trace = {}
    /\ sends = <<>>
    /\ resp = NoAnswer
    /\ since_send = Horizon
    /\ slept = 0

\* pd.DataFrame(): no column, no row
EmptyFrame == [columns |-> {}, rows |-> <<>>]
NoLoader == [who |-> "none", i |-> 0, sector_data |-> <<>>, tick_data |-> JNull,
             current_price |-> Zero]
NoFetch ==
    [i |-> 0, info |-> "none", tick |-> "none", ohlc |-> "none", bars |-> 0, prev_close |-> 0]
NoDashboard == [shown |-> FALSE, rows |-> {}]
\* an empty dict where a benchmark snapshot is expected
NoBenchmark == [keys |-> {}, price |-> Zero, change |-> Zero]
NoRelative ==
    [stage |-> "none", before |-> EmptyFrame, sector_data |-> EmptyFrame,
     benchmark_data |-> NoBenchmark, returned |-> EmptyFrame]

\* SectorRotationStrategy.__init__
StrategyInit ==
    /\ strategy_connected = FALSE
    /\ loader = NoLoader
    /\ fetch = NoFetch
    /\ fetched = NoFetch
    /\ frame = EmptyFrame
    /\ dashboard = NoDashboard
    /\ relative = NoRelative

(* ------------------------------------------------------------------ time *)

Sat(x) == IF x > Horizon THEN Horizon ELSE x

\* d ticks pass
Advance(s, d) == [s EXCEPT !.elapsed = Sat(@ + d), !.since_send = Sat(@ + d)]

\* time.sleep(d)
sleep(s, d) == [Advance(s, d) EXCEPT !.slept = @ + d]

(* -------------------------------------------------------------- the client *)

\* MetaSyncAPI._rate_limit
_rate_limit(s) ==
    IF s.elapsed < min_request_interval
    THEN sleep(s, min_request_interval - s.elapsed)
    ELSE s

\* log_params = {k: v for k, v in kwargs.items() if k not in ['password', 'api_key']}
LogParams(kwargs) == [k \in DOMAIN kwargs \ {"password", "api_key"} |-> kwargs[k]]

\* MetaSyncAPI._make_request from its entry to requests.get / requests.post.
\* depth is the depth of the recursion (0 for the caller's call) and demanded
\* the sleep the previous answer asked for; neither is in the code.
_make_request(s, endpoint, method, kwargs, depth, demanded) ==
    LET s1 == _rate_limit(s)
        extra == IF "headers" \in DOMAIN kwargs THEN kwargs["headers"].d ELSE <<>>
        headers == extra @@ HEADERS
        popped == Pop(kwargs, "headers")
        log_params == LogParams(popped)
        lines == {method, endpoint} \cup (IF DOMAIN log_params # {} THEN Printed(log_params) ELSE {})
        json_data == IF "json" \in DOMAIN popped THEN popped["json"] ELSE Dict(popped)
        left == IF method = "POST" THEN Pop(popped, "json") ELSE popped
        request == [endpoint |-> endpoint, method |-> method, headers |-> headers,
                    params |-> IF method = "GET" THEN popped ELSE <<>>,
                    json |-> IF method = "POST" THEN json_data ELSE NoBody]
        sent == [request |-> request, gap |-> s1.since_send,
                 waited |-> s1.slept, demanded |-> demanded]
    IN [s1 EXCEPT
            !.trace = @ \cup lines,
            !.sends = IF depth = 0 THEN <<sent>> ELSE Append(@, sent),
            !.since_send = 0,
            !.slept = 0,
            !.call.sent_connect = @ \/ endpoint = ENDPOINTS.connect,
            !.call.sent_data = @ \/ endpoint # ENDPOINTS.connect,
            !.mr = [state |-> "inflight", endpoint |-> endpoint, method |-> method,
                    kwargs |-> left, depth |-> depth]]

\* a client operation returns value
Finish(s, value) ==
    [s EXCEPT !.ret = value, !.raised = FALSE, !.call.stage = "done", !.mr = IdleRequest,
              !.sends = <<>>]

\* a client operation raises
Throw(s) ==
    [s EXCEPT !.ret = JNull, !.raised = TRUE, !.call.stage = "done", !.mr = IdleRequest,
              !.sends = <<>>]

\* the value an operation returns when the connection cannot be made
Empty(name) == IF name \in {"get_ohlc", "get_positions"} THEN JList(<<>>) ELSE JDict({})

\* the request of a data operation: get_tick 277, get_symbol_info 329,
\* get_positions 293, get_ohlc 229-247
data_request(s) ==
    LET op == s.call
        s1 == [s EXCEPT !.call.stage = "request"]
    IN CASE op.name = "get_tick" ->
              _make_request(s1, ENDPOINTS.tick, "GET", [symbol |-> Str(op.symbol)], 0, 0)
         [] op.name = "get_symbol_info" ->
              _make_request(s1, ENDPOINTS.symbol_info, "GET", [symbol |-> Str(op.symbol)], 0, 0)
         [] op.name = "get_positions" ->
              _make_request(s1, ENDPOINTS.positions, "GET", <<>>, 0, 0)
         [] op.name = "get_ohlc" ->
              _make_request([s1 EXCEPT !.trace = @ \cup {op.symbol, "D1"}],
                            ENDPOINTS.ohlc, "GET",
                            [symbol |-> Str(op.symbol), timeframe |-> Str("D1"),
                             date_from |-> Str("<date_from>"), date_to |-> Str("<date_to>")],
                            0, 0)

\* connect() has returned b to the code that called it: the caller of the
\* client, or the guard 'if not self.connected and not self.connect()' of a
\* data operation
connect_return(s, b) ==
    IF s.call.name = "connect" THEN Finish(s, JBool(b))
    ELSE IF b THEN data_request(s)
    ELSE Finish([s EXCEPT !.trace = @ \cup {"Not connected to MetaTrader5"}],
                Empty(s.call.name))

\* connect without 'if self.connected: return True'
connect_always_asks(s) ==
    _make_request([s EXCEPT !.call.stage = "connecting", !.trace = @ \cup {MT5_SERVER}],
                  ENDPOINTS.connect, "POST", [json |-> Dict(connection_data)], 0, 0)

\* MetaSyncAPI.connect from its entry to the request
connect(s) ==
    IF s.connected THEN connect_return(s, TRUE)
    ELSE _make_request([s EXCEPT !.call.stage = "connecting", !.trace = @ \cup {MT5_SERVER}],
                       ENDPOINTS.connect, "POST", [json |-> Dict(connection_data)], 0, 0)

\* the test of 197 without its second half
ConnectSucceeded_flag_only(result) == "connected" \in result.keys /\ result.flag

\* result.get('connected', False) and result.get('status') == 'success'
ConnectSucceeded(result) ==
    /\ "connected" \in result.keys /\ result.flag
    /\ "status" \in result.keys /\ result.status = "success"

\* MetaSyncAPI.connect once _make_request has returned result, or has raised
\* (exc): result.get raises on a value that is no dict, and every exception
\* is caught
connect_result(s, result, exc) ==
    LET ok == ~exc /\ result.shape = "dict" /\ ConnectSucceeded(result)
    IN connect_return([s EXCEPT !.connected = ok], ok)

\* a data operation without its guard
on_demand_unguarded(s) == data_request(s)

\* the guard of every data operation: 'if not self.connected and not self.connect()'
on_demand(s) == IF ~s.connected THEN connect(s) ELSE data_request(s)

\* get_ohlc 249-269 once _make_request has returned result, or has raised
get_ohlc_result(s, result, exc) ==
    IF exc THEN Finish(s, JList(<<>>))
    ELSE IF result.shape = "list"
    THEN Finish(s, JList(LastCandles(result.items, s.call.count)))
    ELSE IF result.shape = "dict" /\ "candles" \in result.keys
    THEN Finish(s, JList(LastCandles(result.items, s.call.count)))
    ELSE Finish([s EXCEPT !.trace = @ \cup {"Unexpected OHLC response format"}], JList(<<>>))

\* get_positions 294: result.get('positions', [])
get_positions_result(s, result, exc) ==
    IF exc \/ result.shape # "dict" THEN Throw(s)
    ELSE IF "positions" \in result.keys THEN Finish(s, JList(result.items))
    ELSE Finish(s, JList(<<>>))

\* the names that the body of class Config binds (15-99)
ConfigAttributes ==
    {"RAPIDAPI_KEY", "MT5_LOGIN", "MT5_PASSWORD", "MT5_SERVER", "API_BASE_URL", "HEADERS",
     "ENDPOINTS", "SECTORS", "BENCHMARK", "TRADING_RULES", "RISK_CONFIG"}

\* what the gateway may answer to the request of 307: response.json(), or the
\* {} of 312 when the request or raise_for_status raises
AccountBodies == {JDict({"balance"}), JDict({})}

\* MetaSyncAPI.get_account_info.  The class body defines the name twice, and
\* binds it to the later definition, the staticmethod of 296-312; the method
\* of 279-285 is not reachable.  Line 299 reads Config.RAPIDAPI_HOST before
\* the try of 306: AttributeError leaves the call when Config has no such
\* name.  Otherwise requests.get is called directly, with no connect, no rate
\* limit and no retry, and answer is what 309 or 312 returns.
get_account_info(s, answer) ==
    IF "RAPIDAPI_HOST" \notin ConfigAttributes THEN Throw(s)
    ELSE Finish(s, answer)

\* a data operation once _make_request has returned result, or has raised
data_result(s, result, exc) ==
    CASE s.call.name = "get_ohlc" -> get_ohlc_result(s, result, exc)
      [] s.call.name = "get_positions" -> get_positions_result(s, result, exc)
      [] OTHER -> IF exc THEN Throw(s) ELSE Finish(s, result)

\* _make_request returns result to the operation that called it
Return(s, result) ==
    IF s.call.stage = "connecting" THEN connect_result(s, result, FALSE)
    ELSE data_result(s, result, FALSE)

\* an exception that _make_request does not catch reaches the operation
Except(s) ==
    IF s.call.stage = "connecting" THEN connect_result(s, JNull, TRUE)
    ELSE data_result(s, JNull, TRUE)

\* the gateway answers after d ticks
Answered(s, d, kind, header, body) ==
    [Advance(s, d) EXCEPT
        !.resp = [kind |-> kind, retry_after |-> header, body |-> body],
        !.slept = 0]

\* _make_request 143-149: the answer is a 429
too_many_requests(s, header) ==
    IF header # "absent" /\ ~IsInt(header) THEN Except(s)
    ELSE LET retry_after ==
                 (IF header = "absent" THEN RetryAfterDefault ELSE IntOf(header))
                 * TicksPerSecond
         IN _make_request(sleep(s, retry_after), s.mr.endpoint, s.mr.method,
                          s.mr.kwargs, s.mr.depth + 1, retry_after)

\* _make_request 151-157: the answer has a 2xx status
success(s, body) == Return([s EXCEPT !.elapsed = 0], body)

\* _make_request 159-170: raise_for_status or the transport raised a
\* RequestException
request_failed(s) ==
    Return([s EXCEPT !.trace = @ \cup {"API request failed", s.mr.endpoint}], ErrorRecord)

(* ------------------------------------------------- calling an operation *)

Symbols == {"XLF.NYSE"}

\* an operation is called, d ticks after the last one returned
Begin(s, d, name, symbol, count) ==
    [Advance(s, d) EXCEPT
        !.call = [name |-> name, symbol |-> symbol, count |-> count, stage |-> "entry",
                  sent_connect |-> FALSE, sent_data |-> FALSE,
                  was_connected |-> s.connected],
        !.ret = JNull, !.raised = FALSE, !.trace = {}, !.sends = <<>>,
        !.resp = NoAnswer, !.slept = 0]

(* ------------------------------------------------------------ the strategy *)

\* the columns of pd.DataFrame(sector_data); 'timestamp', the wall-clock time
\* of the record, is not modelled
SnapshotColumns == {"sector", "symbol", "price", "change", "volume"}

\* the loader asks for the symbol info of sector i: 384-388
fetch_info(s, i) ==
    [on_demand(Begin([s EXCEPT !.loader.i = i, !.fetched = s.fetch,
                               !.fetch = [NoFetch EXCEPT !.i = i]],
                     0, "get_symbol_info",
                     sector_symbols[i].symbol, 0))
        EXCEPT !.pc = "info"]

\* _load_symbol_info from its entry to the first request: 367-388.  The frame
\* and the dashboard of the cycle before are dead by now and are dropped.
load_begin(s, who) ==
    fetch_info([s EXCEPT !.loader = [NoLoader EXCEPT !.who = who], !.fetch = NoFetch,
                         !.fetched = NoFetch,
                         !.frame = EmptyFrame, !.dashboard = NoDashboard,
                         !.relative = NoRelative], 1)

\* run_strategy 702-712
run_strategy(s) ==
    IF ~s.strategy_connected THEN [s EXCEPT !.pc = "exit"]
    ELSE load_begin(s, "run_strategy")

\* run_strategy 716: the benchmark tick is asked for
benchmark_fetch(s) ==
    [on_demand(Begin(s, 0, "get_tick", BENCHMARK, 0)) EXCEPT !.pc = "bench"]

\* _load_symbol_info 433-436 and what its caller does next: initialize drops
\* the frame and returns True to main, which calls run_strategy; run_strategy
\* keeps it and goes on to the benchmark
load_return(s) ==
    LET df == IF s.loader.sector_data # <<>>
              THEN [columns |-> SnapshotColumns, rows |-> s.loader.sector_data]
              ELSE EmptyFrame
        s1 == [s EXCEPT !.fetched = s.fetch, !.fetch = NoFetch]
    IN IF s.loader.who = "initialize" THEN run_strategy(s1)
       ELSE benchmark_fetch([s1 EXCEPT !.frame = df])

\* the for loop of _load_symbol_info moves on: 382
next_sector(s) ==
    IF s.loader.i < Len(sector_symbols) THEN fetch_info(s, s.loader.i + 1)
    ELSE load_return(s)

\* what get_symbol_info came to, for the record
InfoOutcome(s) ==
    IF s.raised THEN "raised"
    ELSE IF s.call.sent_data /\ s.resp.kind \in {"http_error", "network_error"} THEN "error"
    ELSE IF ~Truthy(s.ret) THEN "empty"
    ELSE "ok"

\* 'if not symbol_info' of 389
NoSymbolInfo(symbol_info) == ~Truthy(symbol_info)

\* 388-397 with a 'break' where 391 has 'continue' and no try around the call
sector_info_breaks(s) ==
    LET i == s.loader.i
        s1 == [s EXCEPT !.fetch.info = InfoOutcome(s)]
    IN IF s.raised \/ NoSymbolInfo(s.ret) THEN load_return(s1)
       ELSE [on_demand(Begin([s1 EXCEPT !.fetch.tick = "requested"], 0, "get_tick",
                             sector_symbols[i].symbol, 0))
                EXCEPT !.pc = "tick"]

\* _load_symbol_info 388-397, get_symbol_info having returned or raised
sector_info(s) ==
    LET i == s.loader.i
        s1 == [s EXCEPT !.fetch.info = InfoOutcome(s)]
    IN IF s.raised \/ NoSymbolInfo(s.ret) THEN next_sector(s1)
       ELSE [on_demand(Begin([s1 EXCEPT !.fetch.tick = "requested"], 0, "get_tick",
                             sector_symbols[i].symbol, 0))
                EXCEPT !.pc = "tick"]

\* 'not tick_data or 'bid' not in tick_data or 'ask' not in tick_data' of 399;
\* a list of bars holds neither string, and on a number 'in' raises, which
\* skips the sector as well (430)
NoValidTick(tick_data) ==
    \/ ~Truthy(tick_data)
    \/ tick_data.shape # "dict"
    \/ "bid" \notin tick_data.keys
    \/ "ask" \notin tick_data.keys

\* _load_symbol_info 397-408, get_tick having returned or raised
sector_tick(s) ==
    LET i == s.loader.i
        tick_data == s.ret
        skip == s.raised \/ NoValidTick(tick_data)
        s1 == [s EXCEPT !.fetch.tick = IF s.raised THEN "raised"
                                          ELSE IF skip THEN "lacking" ELSE "ok"]
    IN IF skip THEN next_sector(s1)
       ELSE [on_demand(Begin([s1 EXCEPT
                                 !.loader.tick_data = tick_data,
                                 !.loader.current_price = Rat(tick_data.bid + tick_data.ask, 2),
                                 !.fetch.ohlc = "requested"],
                             0, "get_ohlc", sector_symbols[i].symbol, 2))
                EXCEPT !.pc = "ohlc"]

\* _load_symbol_info 410-415
DailyChange(current_price, ohlc_data) ==
    IF Len(ohlc_data) >= 2 /\ ohlc_data[1].close > 0
    THEN LET prev_close == RatOfInt(ohlc_data[1].close)
         IN RatMul(RatDiv(RatSub(current_price, prev_close), prev_close), RatOfInt(100))
    ELSE Zero

\* _load_symbol_info 408-428, get_ohlc having returned (it catches what it raises)
sector_ohlc(s) ==
    LET i == s.loader.i
        ohlc_data == s.ret.items
        tick_data == s.loader.tick_data
        record == [sector |-> sector_symbols[i].sector,
                   symbol |-> sector_symbols[i].symbol,
                   price |-> s.loader.current_price,
                   change |-> DailyChange(s.loader.current_price, ohlc_data),
                   volume |-> IF "volume" \in tick_data.keys THEN tick_data.volume ELSE 0,
                   relative_strength |-> Zero]
        s1 == [s EXCEPT !.loader.sector_data = Append(@, record),
                        !.fetch.ohlc = "done",
                        !.fetch.bars = Len(ohlc_data),
                        !.fetch.prev_close = IF ohlc_data = <<>> THEN 0 ELSE ohlc_data[1].close]
    IN next_sector(sleep(s1, TicksPerSecond \div 2))

\* calculate_relative_strength with the benchmark left out of 629
calculate_relative_strength_own_change(sector_data, benchmark_data) ==
    IF sector_data.rows = <<>> \/ benchmark_data.keys = {} THEN sector_data
    ELSE [columns |-> sector_data.columns \cup {"relative_strength"},
          rows |-> [k \in 1..Len(sector_data.rows) |->
                       [sector_data.rows[k] EXCEPT
                           !.relative_strength = sector_data.rows[k].change]]]

\* SectorRotationStrategy.calculate_relative_strength: the column is added to
\* the frame that was passed in
calculate_relative_strength(sector_data, benchmark_data) ==
    IF sector_data.rows = <<>> \/ benchmark_data.keys = {} THEN sector_data
    ELSE LET benchmark_change ==
                 IF "change" \in benchmark_data.keys THEN benchmark_data.change ELSE Zero
         IN [columns |-> sector_data.columns \cup {"relative_strength"},
             rows |-> [k \in 1..Len(sector_data.rows) |->
                          [sector_data.rows[k] EXCEPT
                              !.relative_strength = RatSub(sector_data.rows[k].change,
                                                           benchmark_change)]]]

\* a call of calculate_relative_strength, for the record.  Line 629 writes the
\* column into the frame it was given and 631 returns that frame: the caller's
\* frame and the frame returned are one object, which holds the column.
relative_strength_call(sector_data, benchmark_data) ==
    LET out == calculate_relative_strength(sector_data, benchmark_data)
    IN [stage |-> "returned", before |-> sector_data, sector_data |-> out,
        benchmark_data |-> benchmark_data, returned |-> out]

\* SectorRotationStrategy.display_dashboard: the rows it prints, whatever
\* their order (sort_values leaves the order of equal keys open)
display_dashboard(sector_data, benchmark_data) ==
    IF sector_data.rows = <<>> THEN NoDashboard
    ELSE IF "relative_strength" \notin sector_data.columns THEN NoDashboard
    ELSE [shown |-> TRUE, rows |-> {sector_data.rows[k] : k \in 1..Len(sector_data.rows)}]

\* run_strategy 716-745 with a benchmark change taken from the price
benchmark_tick_price_change(s) ==
    LET benchmark_tick == s.ret
        ok == ~s.raised /\ ~NoValidTick(benchmark_tick)
        price == Rat(benchmark_tick.bid + benchmark_tick.ask, 2)
        benchmark_data == [keys |-> {"symbol", "price", "change", "timestamp"},
                           price |-> price,
                           change |-> RatSub(price, RatOfInt(100))]
        called == relative_strength_call(s.frame, benchmark_data)
    IN IF ok /\ s.frame.rows # <<>>
       THEN [s EXCEPT !.frame = called.returned,
                      !.relative = called,
                      !.dashboard = display_dashboard(called.returned, benchmark_data),
                      !.pc = "sleep"]
       ELSE [s EXCEPT !.pc = "sleep"]

\* run_strategy 716-745, get_tick having returned or raised
benchmark_tick(s) ==
    LET benchmark_tick == s.ret
        ok == ~s.raised /\ ~NoValidTick(benchmark_tick)
        benchmark_data == [keys |-> {"symbol", "price", "change", "timestamp"},
                           price |-> Rat(benchmark_tick.bid + benchmark_tick.ask, 2),
                           change |-> Zero]
        called == relative_strength_call(s.frame, benchmark_data)
        sector_data == called.returned
    IN IF ok /\ s.frame.rows # <<>>
       THEN [s EXCEPT !.frame = sector_data,
                      !.relative = called,
                      !.dashboard = display_dashboard(sector_data, benchmark_data),
                      !.pc = "sleep"]
       ELSE [s EXCEPT !.pc = "sleep"]

\* SectorRotationStrategy.initialize 350-357, connect() having returned
initialize_connected(s) ==
    IF ~s.ret.flag THEN [s EXCEPT !.strategy_connected = FALSE, !.pc = "exit"]
    ELSE load_begin([s EXCEPT !.strategy_connected = TRUE], "initialize")

\* The operation that was called has returned or raised: the code that called
\* it goes on, up to its next request.  A caller that drives the client
\* directly (pc = "client") is free to do anything next.
Resume(s) ==
    IF s.call.stage # "done" THEN s
    ELSE CASE s.pc = "initialize" -> initialize_connected(s)
           [] s.pc = "info" -> sector_info(s)
           [] s.pc = "tick" -> sector_tick(s)
           [] s.pc = "ohlc" -> sector_ohlc(s)
           [] s.pc = "bench" -> benchmark_tick(s)
           [] OTHER -> s

(* ------------------------------------------------------- gateway actions *)

TooManyRequests ==
    /\ mr.state = "inflight"
    /\ mr.depth < MaxRetries
    /\ \E header \in RetryAfterHeaders, d \in 0..MaxLatency :
          Commit(Resume(too_many_requests(Answered(State, d, "429", header, JNull), header)))

Success ==
    /\ mr.state = "inflight"
    /\ \E body \in Bodies(mr.endpoint), d \in 0..MaxLatency :
          Commit(Resume(success(Answered(State, d, "ok", "absent", body), body)))

RequestFailed ==
    /\ mr.state = "inflight"
    /\ \E kind \in {"http_error", "network_error"}, d \in 0..MaxLatency :
          Commit(Resume(request_failed(Answered(State, d, kind, "absent", JNull))))

(* -------------------------------------------- the caller of the client *)

Connect ==
    /\ pc = "client"
    /\ call.stage = "done"
    /\ \E d \in 0..MaxIdle : Commit(connect(Begin(State, d, "connect", "", 0)))

GetTick ==
    /\ pc = "client"
    /\ call.stage = "done"
    /\ \E d \in 0..MaxIdle, symbol \in Symbols :
          Commit(on_demand(Begin(State, d, "get_tick", symbol, 0)))

GetSymbolInfo ==
    /\ pc = "client"
    /\ call.stage = "done"
    /\ \E d \in 0..MaxIdle, symbol \in Symbols :
          Commit(on_demand(Begin(State, d, "get_symbol_info", symbol, 0)))

GetPositions ==
    /\ pc = "client"
    /\ call.stage = "done"
    /\ \E d \in 0..MaxIdle : Commit(on_demand(Begin(State, d, "get_positions", "", 0)))

GetAccountInfo ==
    /\ pc = "client"
    /\ call.stage = "done"
    /\ \E d \in 0..MaxIdle, answer \in AccountBodies :
          Commit(get_account_info(Begin(State, d, "get_account_info", "", 0), answer))

GetOhlc ==
    /\ pc = "client"
    /\ call.stage = "done"
    /\ \E d \in 0..MaxIdle, symbol \in Symbols, count \in 0..MaxCount :
          Commit(on_demand(Begin(State, d, "get_ohlc", symbol, count)))

(* ----------------------------------------------------------- the program *)

\* main: SectorRotationStrategy(), initialize(), up to the connect request
Initialize ==
    /\ pc = "start"
    /\ Commit([connect(Begin(State, 0, "connect", "", 0)) EXCEPT !.pc = "initialize"])

\* run_strategy 747-749, then the next pass of the loop up to its first request
NextCycle ==
    /\ pc = "sleep"
    /\ Commit(load_begin(sleep(State, update_interval * TicksPerSecond), "run_strategy"))

(* -------------------------------------------------------- specifications *)

\* the client, driven by a caller that may call any operation at any time
Init == ClientInit /\ StrategyInit /\ pc = "client"

Next ==
    \/ Connect
    \/ GetTick
    \/ GetSymbolInfo
    \/ GetPositions
    \/ GetAccountInfo
    \/ GetOhlc
    \/ TooManyRequests
    \/ Success
    \/ RequestFailed

Spec == Init /\ [][Next]_vars

\* the program: main()
InitStrategy == ClientInit /\ StrategyInit /\ pc = "start"

NextStrategy ==
    \/ Initialize
    \/ NextCycle
    \/ TooManyRequests
    \/ Success
    \/ RequestFailed

SpecStrategy == InitStrategy /\ [][NextStrategy]_vars

\* the normalisation of get_ohlc on its own: the client connects, get_ohlc is
\* called with any count, and the gateway answers with any list of up to
\* MaxBars bars, bare or under 'candles'
InitOhlc == ClientInit /\ StrategyInit /\ pc = "client"

ConnectAnswer ==
    /\ mr.state = "inflight"
    /\ mr.endpoint = ENDPOINTS.connect
    /\ \E body \in {[JDict({"connected", "status"}) EXCEPT !.flag = TRUE, !.status = "success"]} :
          Commit(Resume(success(Answered(State, 0, "ok", "absent", body), body)))

OhlcAnswer ==
    /\ mr.state = "inflight"
    /\ mr.endpoint = ENDPOINTS.ohlc
    /\ \E bars \in BarLists :
          \E body \in {JList(bars), [JDict({"candles"}) EXCEPT !.items = bars]} :
              Commit(Resume(success(Answered(State, 0, "ok", "absent", body), body)))

NextOhlc ==
    \/ GetOhlc
    \/ ConnectAnswer
    \/ OhlcAnswer

SpecOhlc == InitOhlc /\ [][NextOhlc]_vars

\* calculate_relative_strength on its own: it is called with any frame of up
\* to MaxRows snapshot records, with or without a relative_strength column
\* already, and any benchmark snapshot, an empty dict included
Changes == {Rat(-3, 1), Zero, Rat(5, 2)}
BenchmarkChanges == {Rat(-1, 1), Zero, Rat(2, 1)}

SnapshotRecords(stale) ==
    {[sector |-> sector_symbols[i].sector, symbol |-> sector_symbols[i].symbol,
      price |-> RatOfInt(100), change |-> c, volume |-> 0, relative_strength |-> stale] :
        i \in 1..Len(sector_symbols), c \in Changes}

Frames ==
    {EmptyFrame}
    \cup {[columns |-> SnapshotColumns, rows |-> rows] :
            rows \in SeqsUpTo(SnapshotRecords(Zero), MaxRows)}
    \cup {[columns |-> SnapshotColumns \cup {"relative_strength"}, rows |-> rows] :
            rows \in SeqsUpTo(SnapshotRecords(RatOfInt(9)), MaxRows)}

BenchmarkSnapshots ==
    {NoBenchmark}
    \cup {[keys |-> {"symbol", "price", "change", "timestamp"},
           price |-> RatOfInt(100), change |-> c] : c \in BenchmarkChanges}
    \cup {[keys |-> {"symbol", "price"}, price |-> RatOfInt(100), change |-> Zero]}

InitRelative == ClientInit /\ StrategyInit /\ pc = "relative"

CalculateRelativeStrength ==
    /\ pc = "relative"
    /\ relative.stage = "none"
    /\ \E sector_data \in Frames, benchmark_data \in BenchmarkSnapshots :
          Commit([State EXCEPT
                    !.relative = relative_strength_call(sector_data, benchmark_data)])

NextRelative == CalculateRelativeStrength

SpecRelative == InitRelative /\ [][NextRelative]_vars

(* ------------------------------------------------------------ properties *)

DataOperations == {"get_tick", "get_ohlc", "get_symbol_info", "get_positions"}

\* C1: a 429 is retried exactly once: one call of _make_request sends at most
\* two HTTP requests, the original and one retry, whatever the gateway answers.
C1_AtMostOneRetry == Len(sends) <= 2

\* C2: the request sent again after a 429 is the original one (endpoint, method,
\* headers, query parameters, JSON body), and it is sent only after a sleep of
\* at least the Retry-After value, 5 seconds when the header is absent.
C2_RetryIsIdentical ==
    \A i \in 2..Len(sends) :
        /\ sends[i].request = sends[1].request
        /\ sends[i].waited >= sends[i].demanded

\* C3: any two consecutive HTTP requests of one client are at least
\* min_request_interval apart, whatever the outcome of the earlier one.
C3_MinimumSpacing == \A i \in 1..Len(sends) : sends[i].gap >= min_request_interval

\* C4: no log line of any client operation holds the account password or the
\* API key.
C4_NoCredentialInTrace == MT5_PASSWORD \notin trace /\ RAPIDAPI_KEY \notin trace

\* the connect answer is a record with a truthy "connected" and a "status"
\* equal to "success"
GoodConnectAnswer ==
    /\ resp.kind = "ok"
    /\ resp.body.shape = "dict"
    /\ "connected" \in resp.body.keys /\ resp.body.flag
    /\ "status" \in resp.body.keys /\ resp.body.status = "success"

\* C5: connect() returns true and sets the connection flag exactly when the
\* connect answer is a record with a truthy "connected" and status "success";
\* on any other answer it returns false, leaves the flag false and does not
\* raise.  The same holds of the connect() that a data operation calls: the
\* operation goes on to its data request exactly on such an answer.
C5_ConnectResult ==
    /\ (call.stage = "done" /\ call.sent_connect /\ ~call.sent_data) =>
          /\ connected = GoodConnectAnswer
          /\ ~raised
          /\ (call.name = "connect" => ret = JBool(GoodConnectAnswer))
          /\ (call.name # "connect" => ~connected)
    /\ (mr.state = "inflight" /\ mr.endpoint # ENDPOINTS.connect /\ mr.depth = 0
        /\ call.sent_connect) =>
          (connected /\ GoodConnectAnswer)

\* a call of connect() has been answered by the gateway with a good answer and
\* has returned true
C5_Witness ==
    /\ call.name = "connect" /\ call.stage = "done" /\ call.sent_connect
    /\ GoodConnectAnswer /\ ret = JBool(TRUE)

\* C6: once connected, the client stays connected whatever operation runs, and
\* a call of connect() returns true without sending a request.
C6_ConnectIdempotent ==
    [][connected =>
          /\ connected'
          /\ (call'.name = "connect" /\ call'.stage = "done") =>
                (ret' = JBool(TRUE) /\ ~raised' /\ ~call'.sent_connect /\ ~call'.sent_data
                 /\ mr'.state = "idle")]_vars

\* connect() was called on a connected client and has returned
C6_Witness ==
    call.name = "connect" /\ call.stage = "done" /\ call.was_connected /\ ret = JBool(TRUE)

\* C7: no data request is in flight while the connection flag is false; a data
\* operation that ends with the flag false has tried to connect, has sent no
\* data request and has returned its empty result.
C7_ConnectOnDemand ==
    /\ (mr.state = "inflight" /\ mr.endpoint # ENDPOINTS.connect) => connected
    /\ call.sent_data => connected
    /\ (call.name \in DataOperations /\ call.stage = "done" /\ ~connected) =>
          /\ call.sent_connect
          /\ ~call.sent_data
          /\ ~raised
          /\ ret = Empty(call.name)

\* get_tick was called on a client that was not connected, the connect attempt
\* failed, and get_tick has returned
C7_Witness ==
    /\ call.name = "get_tick" /\ call.stage = "done" /\ ~call.was_connected
    /\ call.sent_connect /\ ~connected /\ ret = JDict({})

\* the loader's list holds a record for the sector of number i
Emitted(i) ==
    \E k \in 1..Len(loader.sector_data) :
        loader.sector_data[k].sector = sector_symbols[i].sector

\* the sector of fetch record f failed step 1 (symbol info) or step 2 (tick)
FailedEarly(f) ==
    \/ f.info \in {"error", "empty", "raised"}
    \/ f.tick \in {"lacking", "raised"}

\* C8: a sector whose symbol-info fetch failed or returned nothing (an HTTP or
\* network error included), or whose tick lacks bid or ask, gets no record in
\* the snapshot, and no later request (tick, OHLC) is made for it.
C8_NoSnapshotAfterFailure ==
    \A f \in {fetch, fetched} :
        (f.i > 0 /\ FailedEarly(f)) =>
            /\ ~Emitted(f.i)
            /\ f.ohlc = "none"
            /\ (f.info # "ok" => f.tick = "none")

\* the reference of the daily change: (mid - c) / c * 100 when at least 2 bars
\* came back and the earlier bar's close c is not 0, else 0
ReferenceChange(mid, bars, c) ==
    IF bars >= 2 /\ c # 0
    THEN RatMul(RatDiv(RatSub(mid, RatOfInt(c)), RatOfInt(c)), RatOfInt(100))
    ELSE Zero

\* C9: the change of an emitted snapshot is (mid - c) / c * 100 when get_ohlc
\* returned at least 2 bars and the earlier bar's close c is nonzero, positive
\* or negative, and 0 otherwise; the snapshot is emitted in both cases.
C9_DailyChange ==
    \A f \in {fetch, fetched} :
        f.ohlc = "done" =>
            \E k \in 1..Len(loader.sector_data) :
                /\ loader.sector_data[k].sector = sector_symbols[f.i].sector
                /\ loader.sector_data[k].change =
                      ReferenceChange(loader.sector_data[k].price, f.bars, f.prev_close)

Min(a, b) == IF a < b THEN a ELSE b

\* result holds the n bars of bars with the largest time, in ascending order of
\* time: result is made of n bars of the list, each taken once, and no bar left
\* out is later than a bar taken
LatestBars(bars, n, result) ==
    /\ Len(result) = n
    /\ \A i \in 1..(n - 1) : result[i].time <= result[i + 1].time
    /\ \E pick \in [1..n -> 1..Len(bars)] :
          /\ \A i, j \in 1..n : i # j => pick[i] # pick[j]
          /\ \A i \in 1..n : bars[pick[i]] = result[i]
          /\ \A j \in 1..Len(bars) :
                (\A i \in 1..n : pick[i] # j) =>
                    \A i \in 1..n : bars[j].time <= result[i].time

\* C10: for every count >= 0 and every answer that is a bare list of bars or a
\* record with a "candles" list, get_ohlc returns the min(count, number of
\* bars) bars with the largest time, in ascending order of time, and never
\* more than count bars.
C10_LastCountBars ==
    (call.name = "get_ohlc" /\ call.stage = "done" /\ call.sent_data /\ resp.kind = "ok"
     /\ (resp.body.shape = "list"
         \/ (resp.body.shape = "dict" /\ "candles" \in resp.body.keys))) =>
        /\ ret.shape = "list"
        /\ Len(ret.items) <= call.count
        /\ LatestBars(resp.body.items, Min(call.count, Len(resp.body.items)), ret.items)

\* the answer has a shape that get_ohlc reads bars from: a list, or a record
\* with "candles"
OhlcShape(body) ==
    body.shape = "list" \/ (body.shape = "dict" /\ "candles" \in body.keys)

\* the answer has the shape that get_positions reads positions from
PositionsShape(body) == body.shape = "dict" /\ "positions" \in body.keys

\* C11: whatever the shape of the body of a 2xx answer (a bare list, a record
\* with or without the expected keys, an error record, a scalar), get_ohlc,
\* get_tick, get_symbol_info and get_positions return and do not raise, and
\* get_ohlc and get_positions return the empty list on a shape they do not
\* recognise.
C11_AnyShapeReturns ==
    (call.name \in DataOperations /\ call.stage = "done" /\ call.sent_data
     /\ resp.kind = "ok") =>
        /\ ~raised
        /\ (call.name = "get_ohlc" /\ ~OhlcShape(resp.body)) => ret = JList(<<>>)
        /\ (call.name = "get_positions" /\ ~PositionsShape(resp.body)) => ret = JList(<<>>)

\* C12: get_tick returns the empty record {} whenever it fails: when the
\* connect attempt fails, and when the tick request gets a non-2xx status or
\* the transport raises.
C12_TickEmptyOnFailure ==
    (call.name = "get_tick" /\ call.stage = "done" /\ ~raised) =>
        /\ ~connected => ret = JDict({})
        /\ (call.sent_data /\ resp.kind \in {"http_error", "network_error"}) =>
              ret = JDict({})

\* z = x - y, by cross-multiplication
IsDifference(z, x, y) ==
    z.num * x.den * y.den = (x.num * y.den - y.num * x.den) * z.den

\* the fields of a snapshot record other than relative_strength
SameSnapshot(a, b) ==
    /\ a.sector = b.sector
    /\ a.symbol = b.symbol
    /\ a.price = b.price
    /\ a.change = b.change
    /\ a.volume = b.volume

\* C13: given a frame with at least one record and a benchmark snapshot,
\* calculate_relative_strength returns the same records in the same order,
\* each with relative_strength = its change minus the benchmark's change
\* (negative values included) and with every other field as it was.
C13_RelativeStrength ==
    (relative.stage = "returned" /\ relative.before.rows # <<>>
     /\ "change" \in relative.benchmark_data.keys) =>
        /\ Len(relative.returned.rows) = Len(relative.before.rows)
        /\ relative.returned.columns = relative.before.columns \cup {"relative_strength"}
        /\ \A k \in 1..Len(relative.before.rows) :
              /\ SameSnapshot(relative.returned.rows[k], relative.before.rows[k])
              /\ IsDifference(relative.returned.rows[k].relative_strength,
                              relative.before.rows[k].change,
                              relative.benchmark_data.change)

\* calculate_relative_strength has returned two records, one of them with a
\* negative change, for a benchmark whose change is not 0
C13_Witness ==
    /\ relative.stage = "returned"
    /\ Len(relative.before.rows) = 2
    /\ relative.benchmark_data.change # Zero
    /\ "change" \in relative.benchmark_data.keys
    /\ \E k \in 1..2 : relative.before.rows[k].change.num < 0
    /\ \E k \in 1..2 : relative.returned.rows[k].relative_strength.num < 0

\* C14: calculate_relative_strength is pure: the frame the caller passed in is
\* after the call what it was before (no relative_strength column unless it had
\* one), and when the frame or the benchmark is empty the frame is returned as
\* it was.
C14_Pure ==
    relative.stage = "returned" =>
        /\ relative.sector_data = relative.before
        /\ (relative.before.rows = <<>> \/ relative.benchmark_data.keys = {}) =>
              relative.returned = relative.before

\* C15: a connection failure does not stop the program: when connect() has
\* returned false, the strategy's flag is false and the program goes on to
\* its next polling cycle, it does not exit.
C15_ConnectionFailureNotFatal ==
    (call.name = "connect" /\ call.stage = "done" /\ ~connected) =>
        (~strategy_connected /\ pc # "exit")

\* the record that the loader builds for sector i from the tick and the bars
\* of that sector alone
OwnRecord(rec, i, tick, bars, c) ==
    /\ rec.sector = sector_symbols[i].sector
    /\ rec.symbol = sector_symbols[i].symbol
    /\ rec.price.num * 2 = (tick.bid + tick.ask) * rec.price.den
    /\ rec.volume = (IF "volume" \in tick.keys THEN tick.volume ELSE 0)
    /\ rec.change = (IF c > 0 THEN ReferenceChange(rec.price, bars, c) ELSE Zero)

\* C16: a failure of a fetch of one sector stays with that sector.  Whatever
\* became of the sector before (fetched: its info, tick or bars failed with an
\* error status, an exception or repeated 429s), the loader goes on to the
\* next sector, and the cycle gets past the last sector to the benchmark; the
\* records of the other sectors are left as they are; and the record of a
\* sector is made of that sector's own tick and bars, whatever came before.
C16_FailureIsolated ==
    [][/\ pc' \in {"info", "tick", "ohlc"} =>
            (loader'.i = fetch'.i /\ fetch'.i \in 1..Len(sector_symbols)
             /\ fetched'.i = fetch'.i - 1)
       /\ pc' \in {"bench", "sleep"} => fetched'.i = Len(sector_symbols)
       /\ pc' = "exit" => ~strategy_connected'
       /\ loader'.sector_data # loader.sector_data =>
            \/ loader'.sector_data = <<>>
            \/ /\ pc = "ohlc"
               /\ Len(loader'.sector_data) = Len(loader.sector_data) + 1
               /\ SubSeq(loader'.sector_data, 1, Len(loader.sector_data)) = loader.sector_data
               /\ fetched'.i = fetch.i
               /\ OwnRecord(loader'.sector_data[Len(loader'.sector_data)], fetch.i,
                            loader.tick_data, fetched'.bars, fetched'.prev_close)]_vars

\* a cycle has completed in which the first sector got no record and the
\* second sector got its record
C16_Witness ==
    /\ pc = "sleep"
    /\ Len(sector_symbols) >= 2
    /\ ~Emitted(1)
    /\ Emitted(2)

\* C17: get_account_info keeps the contract of get_tick: it returns and does
\* not raise; called on a client that is not connected it first tries to
\* connect and returns {} when that fails, and otherwise it sends the
\* account_info request through _make_request.
C17_AccountInfoOnDemand ==
    (call.name = "get_account_info" /\ call.stage = "done") =>
        /\ ~raised
        /\ ~call.was_connected => call.sent_connect
        /\ ~connected => ret = JDict({})
        /\ connected => call.sent_data

\* C18: the benchmark snapshot given to calculate_relative_strength has the
\* change 0 whatever the benchmark's price, so every row of a dashboard has a
\* relative_strength equal to its own change; and a dashboard is shown only in
\* a cycle that built at least one sector record and whose benchmark tick has
\* both bid and ask.
C18_BenchmarkChangeZero ==
    /\ relative.stage = "returned" =>
          ("change" \in relative.benchmark_data.keys /\ relative.benchmark_data.change = Zero)
    /\ dashboard.shown =>
          /\ pc = "sleep"
          /\ relative.stage = "returned"
          /\ dashboard.rows # {}
          /\ \A row \in dashboard.rows :
                /\ row.relative_strength = row.change
                /\ \E k \in 1..Len(loader.sector_data) :
                      SameSnapshot(row, loader.sector_data[k])
          /\ loader.sector_data # <<>>
          /\ call.name = "get_tick" /\ call.symbol = BENCHMARK
          /\ ~raised /\ ret.shape = "dict" /\ {"bid", "ask"} \subseteq ret.keys

\* a dashboard is shown with a row whose change is not 0, for a benchmark
\* whose price is not 100
C18_Witness ==
    /\ dashboard.shown
    /\ relative.benchmark_data.price # RatOfInt(100)
    /\ \E row \in dashboard.rows : row.change # Zero /\ row.relative_strength = row.change

====
